---------------------------- MODULE Spec2Model ----------------------------
(***************************************************************************)
(* Model of the human-feedback loop of the Across documentation bot:       *)
(*   - RLHFListener   (src/src/cogs/reaction_listener.py)                  *)
(*   - FeedbackManager, RLHFPipeline, RLHFTrainer, run_periodic_training   *)
(*     (src/src/reinforcement_learning_via_human_feedback/)                *)
(*   - the progress indicator of the explain / ask / interpret commands    *)
(*     (src/src/cogs/explain2.py, src/src/cogs/ask.py)                     *)
(*                                                                         *)
(* Coroutines run on one asyncio event loop: a coroutine runs without      *)
(* interruption up to its next await of a real I/O operation or sleep, so  *)
(* every action below is one such uninterrupted stretch of code.  The      *)
(* pymongo calls of the listener and of the feedback manager are           *)
(* synchronous and are taken to succeed.                                   *)
(***************************************************************************)
EXTENDS Integers, Sequences, FiniteSets, Bags, TLC

VARIABLES
    is_ready,      \* RLHFListener.is_ready
    channel,       \* RLHFListener.channel: "none" or "ross-bot-logs"
    store,         \* the feedback collection: documents in insertion order
    handlers,      \* bag of the suspended on_raw_reaction_add coroutines
    sent,          \* number of embeds the listener sent to the log channel
    lastHandled,   \* the last reaction event, when handled one at a time
                   \* (live: the listener had its channel at that time)
    posted,        \* messages that exist in the log channel
    now,           \* datetime.utcnow(), in days
    loops,         \* run_periodic_training tasks, by slot
    call,          \* the last run_training_cycle call and its outcome
    tr,            \* the trainer part of a training cycle (file, job, poll)
    job,           \* the fine-tuning job at the provider
    cmd,           \* the command handlers with their indicator tasks
    latest_model,  \* latest_model.txt: whether it exists, its non-empty lines
    interactions,  \* the logs collection: Interaction records in order
    ans,           \* the last generate_response_with_context call
    rank,          \* a find_most_similar_documents call: inputs and result
    ctx,           \* a generate_context_from_documents call
    ds,            \* a create_labeled_dataset call: inputs and result
    logmsg,        \* a LogManager.stream_log call and the reading of its
                   \* message by the listener
    openai_client, \* inference._openai_client and the threads calling
                   \* get_openai_client
    boot           \* restarts of the bot process: how many, and when last

vars == <<is_ready, channel, store, handlers, sent, lastHandled, posted,
          now, loops, call, tr, job, cmd,
          latest_model, interactions, ans, rank, ctx, ds,
          logmsg, openai_client, boot>>

listenerVars == <<is_ready, channel, store, handlers, sent, lastHandled,
                  posted>>
trainVars    == <<loops, call, tr, job>>
answerVars   == <<latest_model, interactions, ans, rank, ctx, ds>>
processVars  == <<logmsg, openai_client, boot>>

-----------------------------------------------------------------------------
(* Bounds *)

MaxHandlers == 2     \* reaction handlers in flight at the same time
MaxDocs     == 4     \* documents in the feedback collection
MaxTime     == 8     \* last day of the clock
TickDays    == 4     \* days by which the clock advances in one step

-----------------------------------------------------------------------------
(* The chat transport: members, messages of the log channel, emojis *)

Users    == {"admin1", "admin2", "member", "botuser"}
Messages == {"m1", "m2", "m3"}

IsBot(u)   == u = "botuser"
IsAdmin(u) == u \in {"admin1", "admin2", "botuser"}

\* A message that an administrator posted in the log channel by hand,
\* with a .txt attachment in the transcript format.
HumanMessages == {"m4"}

\* message.author: the bot posted m1, m2 and m3.
Author(m) == IF m \in HumanMessages THEN "human" ELSE "bot"

\* m1, m2 and m4 carry a .txt attachment, m3 does not.
HasTxt(m) == m \in {"m1", "m2", "m4"}

\* A transcript is the set of the markers it contains.
Markers == {"user", "query", "response"}

\* The transcript of m1 has the three markers; m2 stands for the messages
\* whose transcript lacks at least one of them.
Transcripts(m) ==
    IF m \in {"m1", "m4"} THEN {Markers}
    ELSE IF m = "m2" THEN (SUBSET Markers) \ {Markers}
    ELSE {}

ThumbsUp   == {"thumbsup", "thumbsup_light", "thumbsup_medium_light",
               "thumbsup_medium", "thumbsup_medium_dark", "thumbsup_dark"}
ThumbsDown == {"thumbsdown", "thumbsdown_light", "thumbsdown_medium_light",
               "thumbsdown_medium", "thumbsdown_medium_dark",
               "thumbsdown_dark"}

Event(m, u, e) == [m |-> m, u |-> u, e |-> e]

\* The reaction events of the runs with concurrent handlers: two reviewers
\* on m1, and one event for each way of not qualifying.
ConcurrentEvents ==
    {Event("m1", "admin1", "thumbsup"), Event("m1", "admin1", "thumbsdown"),
     Event("m1", "admin1", "thumbsup_medium"),
     Event("m1", "admin2", "thumbsup"), Event("m1", "admin2", "thumbsdown"),
     Event("m1", "admin1", "thumbsdown_medium_dark"),
     Event("m1", "admin1", "heart"), Event("m1", "member", "thumbsup"),
     Event("m1", "botuser", "thumbsup"), Event("m2", "admin1", "thumbsup"),
     Event("m3", "admin1", "thumbsup")}

\* The reaction events of the runs that handle one event at a time.
SequentialEvents ==
    {Event("m1", u, e) : u \in {"admin1", "admin2"},
                         e \in {"thumbsup", "thumbsup_medium", "thumbsdown",
                                "thumbsdown_medium_dark"}}
    \cup {Event("m1", "admin1", "heart"), Event("m1", "member", "thumbsup"),
          Event("m1", "botuser", "thumbsdown"),
          Event("m2", "admin1", "thumbsup"),
          Event("m3", "admin1", "thumbsdown")}

-----------------------------------------------------------------------------
(* RLHFListener: pure parts *)

\* process_reaction, the two local lists
positive == ThumbsUp
negative == ThumbsDown

\* process_reaction: feedback_type
FeedbackType(e) ==
    IF e \in positive THEN "positive"
    ELSE IF e \in negative THEN "negative"
    ELSE "null"

\* is_valid_reaction: the literal list of accepted emojis
ValidEmojis ==
    {"thumbsup_light", "thumbsup", "thumbsup_medium_light",
     "thumbsup_medium", "thumbsup_medium_dark", "thumbsup_dark",
     "thumbsdown", "thumbsdown_light", "thumbsdown_medium_light",
     "thumbsdown_medium", "thumbsdown_dark"}

\* Mutation: the administrator check is missing.
is_valid_reaction_any_member(e, u) ==
    IF IsBot(u) THEN FALSE
    ELSE IF e \notin ValidEmojis THEN FALSE
    ELSE TRUE

is_valid_reaction(e, u) ==
    IF IsBot(u) THEN FALSE
    ELSE IF ~IsAdmin(u) THEN FALSE
    ELSE IF e \notin ValidEmojis THEN FALSE
    ELSE TRUE

\* process_log_file: the three regular expressions must all match
process_log_file(content) ==
    /\ "user" \in content
    /\ "query" \in content
    /\ "response" \in content

\* update_existing_feedback: the type written by the $set
UpdatedType(e) == IF e = "thumbsup" THEN "positive" ELSE "negative"

\* Documents.  keys is the set of top-level fields of the document.
LogFeedbackKeys ==
    {"timestamp", "reviewer", "original_user", "interaction", "feedback"}
StoreFeedbackKeys ==
    {"timestamp", "original_user", "interaction", "feedback"}

\* log_feedback: feedback_entry
FeedbackDoc(m, u, ftype, t) ==
    [keys |-> LogFeedbackKeys, message_id |-> m, reviewer_id |-> u,
     ftype |-> ftype, timestamp |-> t, feedback_timestamp |-> t]

\* store_feedback: feedback_entry (no reviewer, feedback type None)
PendingDoc(m, t) ==
    [keys |-> StoreFeedbackKeys, message_id |-> m, reviewer_id |-> "none",
     ftype |-> "null", timestamp |-> t, feedback_timestamp |-> t]

\* update_existing_feedback: the find_one filter
MatchesPair(d, m, u) ==
    /\ "reviewer" \in d.keys
    /\ d.message_id = m
    /\ d.reviewer_id = u

\* find_one: index of the first matching document, 0 when there is none
FindOne(s, m, u) ==
    IF \E i \in 1..Len(s) : MatchesPair(s[i], m, u)
    THEN CHOOSE i \in 1..Len(s) :
            /\ MatchesPair(s[i], m, u)
            /\ \A j \in 1..(i-1) : ~MatchesPair(s[j], m, u)
    ELSE 0

\* Mutation: log_feedback inserts without looking for an existing document.
UpsertAlwaysInserts(s, m, u, e, ftype, t) ==
    Append(s, FeedbackDoc(m, u, ftype, t))

\* update_existing_feedback followed by the insert of log_feedback
Upsert(s, m, u, e, ftype, t) ==
    LET i == FindOne(s, m, u) IN
    IF i # 0
    THEN [s EXCEPT ![i].ftype = UpdatedType(e),
                   ![i].feedback_timestamp = t]
    ELSE Append(s, FeedbackDoc(m, u, ftype, t))


-----------------------------------------------------------------------------
(* RLHFListener: the event handlers *)

Handler(pc, ev) == [pc |-> pc, m |-> ev.m, u |-> ev.u, e |-> ev.e]

One(r) == SetToBag({r})

InFlight == BagCardinality(handlers)

NoEvent == [kind |-> "none", m |-> "none", u |-> "none", e |-> "none",
            at |-> 0, live |-> FALSE]

\* on_ready: self.channel is the result of get_logging_channel(); the
\* channel made by create_logging_channel() is not assigned.
OnReady ==
    /\ ~is_ready
    /\ \E exists \in BOOLEAN :
          channel' = IF exists THEN "ross-bot-logs" ELSE "none"
    /\ is_ready' = TRUE
    /\ UNCHANGED <<store, handlers, sent, lastHandled, posted, now,
                   trainVars, cmd, answerVars, processVars>>

\* on_message with store_feedback: a message is posted in the log channel.
\* The insert follows the attachment read; no other coroutine reads or
\* writes the documents without reviewer in between.
PostMessage(m) ==
    /\ m \notin posted
    /\ Len(store) + InFlight < MaxDocs
    /\ posted' = posted \cup {m}
    /\ IF is_ready /\ channel = "ross-bot-logs" /\ HasTxt(m)
       THEN \E content \in Transcripts(m) :
               IF process_log_file(content)
               THEN store' = Append(store, PendingDoc(m, now))
               ELSE store' = store
       ELSE store' = store
    /\ UNCHANGED <<is_ready, channel, handlers, sent, lastHandled, now,
                   trainVars, cmd, answerVars, processVars>>

\* on_raw_reaction_add up to "await guild.fetch_member(...)".  Before
\* on_ready self.channel is None and self.channel.id raises, which the
\* handler catches and logs.
Deliver(ev) ==
    /\ ev.m \in posted
    /\ InFlight < MaxHandlers
    /\ Len(store) + InFlight < MaxDocs
    /\ channel # "none"
    /\ handlers' = handlers (+) One(Handler("fetch_member", ev))
    /\ UNCHANGED <<is_ready, channel, store, sent, lastHandled, posted, now,
                   trainVars, cmd, answerVars, processVars>>

\* Deliver, with the event noted in lastHandled as the one delivered last.
DeliverInOrder(ev) ==
    /\ ev.m \in posted
    /\ InFlight < MaxHandlers
    /\ Len(store) + InFlight < MaxDocs
    /\ channel # "none"
    /\ handlers' = handlers (+) One(Handler("fetch_member", ev))
    /\ lastHandled' = [kind |-> "add", m |-> ev.m, u |-> ev.u, e |-> ev.e,
                       at |-> now, live |-> TRUE]
    /\ UNCHANGED <<is_ready, channel, store, sent, posted, now,
                   trainVars, cmd, answerVars, processVars>>

\* fetch_member returns; on to "await self.channel.fetch_message(...)"
FetchMember(r) ==
    /\ BagIn(r, handlers)
    /\ r.pc = "fetch_member"
    /\ handlers' = (handlers (-) One(r))
                   (+) One([r EXCEPT !.pc = "fetch_message"])
    /\ UNCHANGED <<is_ready, channel, store, sent, lastHandled, posted, now,
                   trainVars, cmd, answerVars, processVars>>

\* fetch_message returns: get_message_from_payload, get_reaction and
\* process_reaction up to "await attachment.read()"
FetchMessage(r) ==
    /\ BagIn(r, handlers)
    /\ r.pc = "fetch_message"
    /\ IF ~HasTxt(r.m)
       THEN handlers' = handlers (-) One(r)
       ELSE IF ~is_valid_reaction(r.e, r.u)
       THEN handlers' = handlers (-) One(r)
       ELSE handlers' = (handlers (-) One(r))
                           (+) One([r EXCEPT !.pc = "read_attachment"])
    /\ UNCHANGED <<is_ready, channel, store, sent, lastHandled, posted, now,
                   trainVars, cmd, answerVars, processVars>>

\* attachment.read() returns: the rest of process_log_file, then
\* log_feedback with update_existing_feedback up to
\* "await reaction.message.channel.send(embed=embed)"
ReadAttachment(r) ==
    /\ BagIn(r, handlers)
    /\ r.pc = "read_attachment"
    /\ \E content \in Transcripts(r.m) :
          IF ~process_log_file(content)
          THEN /\ handlers' = handlers (-) One(r)
               /\ store' = store
          ELSE /\ store' = Upsert(store, r.m, r.u, r.e, FeedbackType(r.e), now)
               /\ IF FindOne(store, r.m, r.u) # 0
                  THEN handlers' = handlers (-) One(r)
                  ELSE handlers' = (handlers (-) One(r))
                                      (+) One([r EXCEPT !.pc = "send"])
    /\ UNCHANGED <<is_ready, channel, sent, lastHandled, posted, now,
                   trainVars, cmd, answerVars, processVars>>

\* channel.send(embed) returns: log_feedback and the handler end
SendEmbed(r) ==
    /\ BagIn(r, handlers)
    /\ r.pc = "send"
    /\ sent' = sent + 1
    /\ handlers' = handlers (-) One(r)
    /\ UNCHANGED <<is_ready, channel, store, lastHandled, posted, now,
                   trainVars, cmd, answerVars, processVars>>

\* The store after on_raw_reaction_add has run from its first to its last
\* line for one event.
HandledStore(s, ev, ch, t) ==
    IF ch = "none" THEN s
    ELSE IF ~HasTxt(ev.m) THEN s
    ELSE IF ~is_valid_reaction(ev.e, ev.u) THEN s
    ELSE IF \E content \in Transcripts(ev.m) : ~process_log_file(content)
    THEN s
    ELSE Upsert(s, ev.m, ev.u, ev.e, FeedbackType(ev.e), t)

\* on_raw_reaction_add handled to completion while no other reaction
\* handler is suspended.
RecordReaction(ev) ==
    /\ ev.m \in posted
    /\ InFlight = 0
    /\ Len(store) < MaxDocs
    /\ store' = HandledStore(store, ev, channel, now)
    /\ sent' = IF Len(store') > Len(store) THEN sent + 1 ELSE sent
    /\ lastHandled' = [kind |-> "add", m |-> ev.m, u |-> ev.u, e |-> ev.e,
                       at |-> now, live |-> channel # "none"]
    /\ UNCHANGED <<is_ready, channel, handlers, posted, now, trainVars, cmd,
                   answerVars, processVars>>

\* A reviewer removes a reaction.  The cog registers listeners for
\* on_ready, on_raw_reaction_add and on_message only: the event reaches
\* no code of the listener.
ReactionRemove(m, u) ==
    /\ m \in posted
    /\ InFlight = 0
    /\ lastHandled' = [kind |-> "remove", m |-> m, u |-> u, e |-> "none",
                       at |-> now, live |-> channel # "none"]
    /\ UNCHANGED <<is_ready, channel, store, handlers, sent, posted, now,
                   trainVars, cmd, answerVars, processVars>>

\* Time passes.
Tick ==
    /\ now + TickDays <= MaxTime
    /\ now' = now + TickDays
    /\ UNCHANGED <<listenerVars, trainVars, cmd, answerVars, processVars>>

HandlerStep ==
    \E r \in BagToSet(handlers) :
       \/ FetchMember(r)
       \/ FetchMessage(r)
       \/ ReadAttachment(r)
       \/ SendEmbed(r)

-----------------------------------------------------------------------------
(* FeedbackManager and the head of RLHFPipeline.run_training_cycle *)

LookbackDays      == 7      \* get_recent_feedback(days=7)
ScheduledMinCount == 6      \* run_training_cycle(min_feedback_count=6)
RegularInterval   == 1000   \* asyncio.sleep(1000) after a cycle
RetryDelay        == 5      \* asyncio.sleep(5) after a failed cycle

MaxMinCount == 2     \* largest min_feedback_count of a direct call
MaxLoops    == 1     \* run_periodic_training tasks
MaxIter     == 2     \* the iteration counter stops counting here
MaxLearns   == 2     \* invocations of the learn command in the runs
                     \* that count the loops

\* get_recent_feedback: the filter of collection.find
InCursor(d, t, days) ==
    /\ d.timestamp >= t - days
    /\ d.ftype # "null"

\* get_recent_feedback: the fields a document needs to be turned into a
\* FeedbackEntry; doc["replies"] is read without a default.
ReadableKeys == {"interaction", "feedback", "original_user"}

\* feedback_manager.FeedbackEntry: the fields of the dataclass
FeedbackEntryFields ==
    {"message_id", "query", "response", "feedback_type", "user_id",
     "timestamp", "replies"}

\* get_recent_feedback: raised is TRUE when doc["replies"] raises KeyError
get_recent_feedback(s, t, days) ==
    LET InC(d)  == InCursor(d, t, days)
        cursor  == SelectSeq(s, InC)
        Read(d) == ReadableKeys \subseteq d.keys
        read    == SelectSeq(cursor, Read)
    IN  [raised    |-> \E i \in 1..Len(read) : "replies" \notin read[i].keys,
         feedbacks |-> read]

\* create_labeled_dataset: the loop body reads feedback.reply; raised is
\* TRUE when that raises AttributeError (re-raised as RLHFError).  The
\* entries carry no reply text, so that each one yields one example.
create_labeled_dataset(feedbacks) ==
    [raised |-> Len(feedbacks) > 0 /\ "reply" \notin FeedbackEntryFields,
     size   |-> Len(feedbacks)]

\* run_training_cycle up to "await self.trainer.prepare_training_file":
\* "None" and "raised" end the call, "train" goes on to the trainer.
CycleHead(s, t, n) ==
    LET fb == get_recent_feedback(s, t, LookbackDays) IN
    IF fb.raised THEN [result |-> "raised", size |-> 0]
    ELSE IF Len(fb.feedbacks) < n THEN [result |-> "None", size |-> 0]
    ELSE LET dataset == create_labeled_dataset(fb.feedbacks) IN
         IF dataset.raised THEN [result |-> "raised", size |-> 0]
         ELSE IF dataset.size = 0 THEN [result |-> "None", size |-> 0]
         ELSE [result |-> "train", size |-> dataset.size]

\* The documents that the claims call qualifying feedback entries: written
\* by log_feedback, with a feedback type, inside the lookback window.
QualifyingEntries(s, t) ==
    {i \in 1..Len(s) : /\ "reviewer" \in s[i].keys
                       /\ s[i].ftype # "null"
                       /\ s[i].timestamp >= t - LookbackDays}

NoCall == [n |-> 0, k |-> 0, result |-> "none", size |-> 0]

MaxFeedbacks == 3    \* entries handed to a direct create_labeled_dataset call

\* The entries that get_recent_feedback builds, as far as the dataset
\* depends on them: the feedback type and the replies of the document.
FeedbackEntries ==
    [feedback_type : {"positive", "negative"},
     replies : {<<>>, <<"be concise">>}]

RECURSIVE FeedbackLists(_)
FeedbackLists(n) ==
    IF n = 0 THEN {<<>>}
    ELSE LET shorter == FeedbackLists(n - 1)
         IN  shorter \cup {Append(l, f) : l \in shorter,
                                           f \in FeedbackEntries}

NoDataset == [done |-> FALSE, feedbacks |-> <<>>,
              out |-> [raised |-> FALSE, size |-> 0]]

\* A call create_labeled_dataset(feedbacks)
CreateLabeledDataset ==
    /\ ~ds.done
    /\ ds' = [ds EXCEPT !.done = TRUE,
                        !.out = create_labeled_dataset(ds.feedbacks)]
    /\ UNCHANGED <<listenerVars, now, trainVars, cmd, latest_model,
                   interactions, ans, rank, ctx, processVars>>

\* rlhf_trainer.OpenAIModel and the model name RLHFPipeline configures
AvailableModels == {"gpt-4o-2024-08-06"}
DefaultModel    == "gpt-4o-2024-08-06"

\* The trainer part of a cycle: not started / started with a dataset.
\*   file      the local training file: "none", "local" or "removed"
\*   uploaded  files.create has stored the file at the provider
\*   polls     status fetches of get_fine_tuned_model
\*   sleeps    sleeps of get_fine_tuned_model that were started
\*   delay     seconds of the sleep that was started last
\*   observed  the status that the last status fetch returned
\*   model     what get_fine_tuned_model returned
\*   result    what run_training_cycle returned
\*   error     the class of the exception that a trainer method raised
TrainerIdle ==
    [pc |-> "idle", size |-> 0, model_name |-> DefaultModel,
     file |-> "none", uploaded |-> FALSE, polls |-> 0, sleeps |-> 0,
     delay |-> 0, observed |-> "none", model |-> "pending",
     result |-> "pending", error |-> "none"]
TrainerStart(size) == [TrainerIdle EXCEPT !.pc = "prepare", !.size = size]

\* Mutation: the cycle removes the documents it fetched from the
\* collection.
CallTrainingCycleConsumes(n) ==
    /\ tr.pc = "idle"
    /\ LET out == CycleHead(store, now, n)
           Kept(d) == ~InCursor(d, now, LookbackDays) IN
       /\ call' = [n |-> n, k |-> Cardinality(QualifyingEntries(store, now)),
                   result |-> out.result, size |-> out.size]
       /\ tr' = IF out.result = "train" THEN TrainerStart(out.size) ELSE tr
       /\ store' = SelectSeq(store, Kept)
    /\ UNCHANGED <<is_ready, channel, handlers, sent, lastHandled, posted,
                   now, loops, job, cmd, answerVars, processVars>>

\* A direct call run_training_cycle(min_feedback_count=n).  k records the
\* number of qualifying entries at the time of the call.
CallTrainingCycle(n) ==
    /\ tr.pc = "idle"
    /\ LET out == CycleHead(store, now, n) IN
       /\ call' = [n |-> n, k |-> Cardinality(QualifyingEntries(store, now)),
                   result |-> out.result, size |-> out.size]
       /\ tr' = IF out.result = "train" THEN TrainerStart(out.size) ELSE tr
    /\ UNCHANGED <<listenerVars, now, loops, job, cmd, answerVars, processVars>>

-----------------------------------------------------------------------------
(* setup_rlhf and run_periodic_training *)

LoopIds == 1..MaxLoops

LoopOff == [pc |-> "off", iteration |-> 1, delay |-> 0, last |-> "none"]

\* Mutation: the exception ends the loop.
AfterCycleErrorStops(loop) ==
    [loop EXCEPT !.pc = "off", !.last = "error"]

\* run_periodic_training: the except branch
AfterCycleError(loop) ==
    [loop EXCEPT !.pc = "sleep", !.delay = RetryDelay, !.last = "error"]

\* Mutation: the loop sleeps the retry delay after a cycle that returned.
AfterCycleReturnRetries(loop, result) ==
    [loop EXCEPT !.pc = "sleep", !.delay = RetryDelay,
                 !.last = IF result = "None" THEN "skipped" ELSE "started",
                 !.iteration = IF @ < MaxIter THEN @ + 1 ELSE @]

\* run_periodic_training: the rest of the try block after the cycle
AfterCycleReturn(loop, result) ==
    [loop EXCEPT !.pc = "sleep", !.delay = RegularInterval,
                 !.last = IF result = "None" THEN "skipped" ELSE "started",
                 !.iteration = IF @ < MaxIter THEN @ + 1 ELSE @]

\* The learn command: asyncio.create_task(setup_rlhf()), which creates the
\* run_periodic_training task.
Learn(l) ==
    /\ loops[l].pc = "off"
    /\ loops' = [loops EXCEPT ![l].pc = "call"]
    /\ UNCHANGED <<listenerVars, now, call, tr, job, cmd, answerVars, processVars>>

\* One pass of the while loop, from run_training_cycle(min_feedback_count=6)
\* to the next sleep.  A cycle that gets as far as the trainer keeps the
\* loop waiting for it.
LoopCycle(l) ==
    /\ loops[l].pc = "call"
    /\ tr.pc = "idle"
    /\ LET out == CycleHead(store, now, ScheduledMinCount) IN
       CASE out.result = "raised" ->
               /\ loops' = [loops EXCEPT ![l] = AfterCycleError(@)]
               /\ tr' = tr
         [] out.result = "None" ->
               /\ loops' = [loops EXCEPT ![l] = AfterCycleReturn(@, "None")]
               /\ tr' = tr
         [] out.result = "train" ->
               /\ loops' = [loops EXCEPT ![l].pc = "training"]
               /\ tr' = TrainerStart(out.size)
    /\ UNCHANGED <<listenerVars, now, call, job, cmd, answerVars, processVars>>

\* asyncio.sleep returns.
LoopWake(l) ==
    /\ loops[l].pc = "sleep"
    /\ loops' = [loops EXCEPT ![l].pc = "call"]
    /\ UNCHANGED <<listenerVars, now, call, tr, job, cmd, answerVars, processVars>>

-----------------------------------------------------------------------------
(* RLHFTrainer and the rest of run_training_cycle *)

PollInterval == 60   \* asyncio.sleep(60) in get_fine_tuned_model

MaxDataset == 2      \* examples in the dataset a cycle starts the trainer with
MaxPolls   == 3      \* the counts of status fetches and sleeps stop here

NoJob == [exists |-> FALSE, status |-> "none", fine_tuned_model |-> "none"]

JobStatuses == {"validating_files", "queued", "running", "succeeded",
                "failed", "cancelled"}
Terminal    == {"succeeded", "failed", "cancelled"}

Rank(st) == CASE st = "validating_files" -> 1
              [] st = "queued" -> 2
              [] st = "running" -> 3
              [] OTHER -> 4

\* The provider moves the job forward.
JobProgress ==
    /\ job.exists
    /\ job.status \notin Terminal
    /\ \E st \in JobStatuses :
          /\ Rank(st) > Rank(job.status)
          /\ job' = [job EXCEPT
                        !.status = st,
                        !.fine_tuned_model =
                            IF st = "succeeded" THEN "ft-model" ELSE "none"]
    /\ UNCHANGED <<listenerVars, now, loops, call, tr, cmd, answerVars, processVars>>

\* The except branches of the trainer methods raise RLHFError, and the
\* except branch of run_training_cycle logs and re-raises.
CycleRaises(t) ==
    [t EXCEPT !.pc = "done", !.result = "raised", !.error = "RLHFError"]

\* The exception that leaves create_training_job when an exception of
\* class raised occurs inside its try block: "except Exception" wraps
\* every one in RLHFError, whose message holds str(e).
TrainingJobError(raised) == "RLHFError"

\* _validate_model
ModelAvailable(name) == name \in AvailableModels

\* prepare_training_file, then create_training_job up to
\* "await self.client.files.create(...)"
PrepareTrainingFile ==
    /\ tr.pc = "prepare"
    /\ \E written \in BOOLEAN :
          tr' = IF ~written THEN CycleRaises(tr)
                ELSE IF ~ModelAvailable(tr.model_name)
                THEN [CycleRaises([tr EXCEPT !.file = "local"])
                         EXCEPT !.error =
                                   TrainingJobError("ModelNotAvailableError")]
                ELSE [tr EXCEPT !.file = "local", !.pc = "upload"]
    /\ UNCHANGED <<listenerVars, now, loops, call, job, cmd, answerVars, processVars>>

\* files.create returns or raises; on to "await ...jobs.create(...)"
UploadFile ==
    /\ tr.pc = "upload"
    /\ \E ok \in BOOLEAN :
          tr' = IF ok THEN [tr EXCEPT !.uploaded = TRUE, !.pc = "create_job"]
                ELSE CycleRaises(tr)
    /\ UNCHANGED <<listenerVars, now, loops, call, job, cmd, answerVars, processVars>>

\* fine_tuning.jobs.create returns or raises; on to "await ...retrieve(job.id)"
CreateJob ==
    /\ tr.pc = "create_job"
    /\ \E ok \in BOOLEAN :
          IF ok
          THEN /\ job' = [exists |-> TRUE, status |-> "validating_files",
                          fine_tuned_model |-> "none"]
               /\ tr' = [tr EXCEPT !.pc = "job_status"]
          ELSE /\ job' = job
               /\ tr' = CycleRaises(tr)
    /\ UNCHANGED <<listenerVars, now, loops, call, cmd, answerVars, processVars>>

\* jobs.retrieve returns or raises; on to "await ...list_events(...)"
JobStatus ==
    /\ tr.pc = "job_status"
    /\ \E ok \in BOOLEAN :
          tr' = IF ok THEN [tr EXCEPT !.pc = "job_events"]
                ELSE CycleRaises(tr)
    /\ UNCHANGED <<listenerVars, now, loops, call, job, cmd, answerVars, processVars>>

\* list_events returns or raises; os.remove; create_training_job returns
\* job.id; get_fine_tuned_model up to its first "await ...list_events(...)"
JobEvents ==
    /\ tr.pc = "job_events"
    /\ \E ok \in BOOLEAN, removed \in BOOLEAN :
          tr' = IF ~ok \/ ~removed THEN CycleRaises(tr)
                ELSE [tr EXCEPT !.file = "removed", !.pc = "poll_events"]
    /\ UNCHANGED <<listenerVars, now, loops, call, job, cmd, answerVars, processVars>>

\* get_fine_tuned_model: list_events returns or raises; on to
\* "await ...retrieve(job_id)"
PollEvents ==
    /\ tr.pc = "poll_events"
    /\ \E ok \in BOOLEAN :
          tr' = IF ok THEN [tr EXCEPT !.pc = "poll_status"]
                ELSE CycleRaises(tr)
    /\ UNCHANGED <<listenerVars, now, loops, call, job, cmd, answerVars, processVars>>

\* Mutation: a cancelled job is polled again.
PollOutcomeFailedOnly(status) ==
    IF status = "succeeded" THEN "return_model"
    ELSE IF status \in {"failed"} THEN "return_none"
    ELSE "sleep"

\* get_fine_tuned_model: what the loop body does with a fetched status
PollOutcome(status) ==
    IF status = "succeeded" THEN "return_model"
    ELSE IF status \in {"failed", "cancelled"} THEN "return_none"
    ELSE "sleep"

\* run_training_cycle: the lines after "await get_fine_tuned_model(job_id)"
CycleResult(fine_tuned_model) ==
    IF fine_tuned_model # "None" THEN "model" ELSE "job_id"

\* get_fine_tuned_model: retrieve returns the job status or raises; the
\* checks of the loop body; then either the return, with the last lines of
\* run_training_cycle, or "await asyncio.sleep(60)"
PollStatus ==
    /\ tr.pc = "poll_status"
    /\ \E ok \in BOOLEAN :
          IF ~ok THEN tr' = CycleRaises(tr)
          ELSE LET t1  == [tr EXCEPT
                                  !.polls = IF @ < MaxPolls THEN @ + 1 ELSE @,
                                  !.observed = job.status]
                   out == PollOutcome(job.status)
               IN  CASE out = "return_model" ->
                          tr' = [t1 EXCEPT
                                    !.pc = "done",
                                    !.model = job.fine_tuned_model,
                                    !.result =
                                        CycleResult(job.fine_tuned_model)]
                     [] out = "return_none" ->
                          tr' = [t1 EXCEPT !.pc = "done", !.model = "None",
                                           !.result = CycleResult("None")]
                     [] out = "sleep" ->
                          tr' = [t1 EXCEPT
                                    !.pc = "poll_sleep",
                                    !.sleeps = IF @ < MaxPolls THEN @ + 1
                                               ELSE @,
                                    !.delay = PollInterval]
    /\ UNCHANGED <<listenerVars, now, loops, call, job, cmd, answerVars, processVars>>

\* Mutation: get_fine_tuned_model gives up after its sleep and returns
\* None.
PollWakeGivesUp ==
    /\ tr.pc = "poll_sleep"
    /\ tr' = [tr EXCEPT !.pc = "done", !.model = "None",
                        !.result = CycleResult("None")]
    /\ UNCHANGED <<listenerVars, now, loops, call, job, cmd, answerVars, processVars>>

\* asyncio.sleep(60) returns; the next "await ...list_events(...)"
PollWake ==
    /\ tr.pc = "poll_sleep"
    /\ tr' = [tr EXCEPT !.pc = "poll_events"]
    /\ UNCHANGED <<listenerVars, now, loops, call, job, cmd, answerVars, processVars>>

\* run_periodic_training: "await pipeline.run_training_cycle(...)" returns
\* or raises once the trainer part of the cycle has ended; on to the sleep.
LoopCycleEnds(l) ==
    /\ loops[l].pc = "training"
    /\ tr.pc = "done"
    /\ loops' = [loops EXCEPT
                    ![l] = IF tr.result = "raised" THEN AfterCycleError(@)
                           ELSE AfterCycleReturn(@, tr.result)]
    /\ tr' = TrainerIdle
    /\ UNCHANGED <<listenerVars, now, call, job, cmd, answerVars, processVars>>

-----------------------------------------------------------------------------
(* The explain, ask and interpret commands with their progress indicator *)

Commands == {"explain", "ask", "interpret"}

LastStage    == 3    \* index of the last entry of stages
StageSeconds == 2    \* asyncio.sleep(2) between two stages
FinalSeconds == 8    \* ask: "if stage_duration >= 8"

\* One command invocation.
\*   hpc        where the command handler is suspended
\*   loading    the flag shared by the handler and update_thinking_message
\*   thinking   the placeholder message: "none", "shown" or "deleted"
\*   lpc        where the indicator task (loader_task) is suspended
\*   stage      explain, interpret: index of the stage being shown;
\*              ask: stage_duration
\*   cancel_req loader_task.cancel() was called and is not yet delivered
\*   cancelled  the handler has called loader_task.cancel()
\*   awaited    "await loader_task" of the handler has ended
\*   gen        how the answer generation ended
\*   error      str(e) of the exception that the handler's except branch
\*              caught
\*   text       the error text that the handler sent to the channel
NoText == [prefix |-> "none", detail |-> "none"]

NoCmd ==
    [name |-> "none", hpc |-> "idle", loading |-> FALSE, thinking |-> "none",
     lpc |-> "none", stage |-> 0, cancel_req |-> FALSE, cancelled |-> FALSE,
     awaited |-> FALSE, gen |-> "none", error |-> "none", text |-> NoText]

\* Messages of the exceptions that reach a handler
ExceptionDetails == {"Request timed out.", "Rate limit reached"}

\* The except branch of the handler has caught an exception with message
\* detail, when c is in that branch.
Caught(c, detail) ==
    IF c.hpc \in {"err_delete", "err_send"} THEN [c EXCEPT !.error = detail]
    ELSE c

\* The text of the send in the except branch:
\* explain, ask: f"An error occurred: {str(e)}"
\* interpret: f"An error occurred while processing your query: {e}"
ErrorText(name, e) ==
    [prefix |-> IF name = "interpret"
                THEN "An error occurred while processing your query: "
                ELSE "An error occurred: ",
     detail |-> e]

LoaderEnded(c) == c.lpc \in {"done", "failed"}

CmdFrame == UNCHANGED <<listenerVars, now, trainVars, answerVars, processVars>>

\* A user sends the command; the handler runs up to the await of the send
\* of the placeholder message.
CmdStart(name) ==
    /\ cmd.hpc \in {"idle", "done", "crashed"}
    /\ cmd.lpc = "none" \/ LoaderEnded(cmd)
    /\ cmd' = [NoCmd EXCEPT !.name = name, !.hpc = "send_thinking"]
    /\ CmdFrame

\* The send returns or raises.  After it: loading = True, create_task, and
\* the await of the answer generation (ask: of asyncio.sleep(0.5) first).
\* When it raises, the except branch sends the error text.
ThinkingSent ==
    /\ cmd.hpc = "send_thinking"
    /\ \E ok \in BOOLEAN, detail \in ExceptionDetails :
          cmd' = IF ok
                 THEN [cmd EXCEPT !.thinking = "shown", !.loading = TRUE,
                                  !.lpc = "created",
                                  !.hpc = IF cmd.name = "ask" THEN "nap"
                                          ELSE "generating"]
                 ELSE Caught([cmd EXCEPT !.hpc = "err_send"], detail)
    /\ CmdFrame

\* update_thinking_message up to its first await.  The task was made
\* before the handler suspended, so that it runs before the handler resumes.
LoaderStart ==
    /\ cmd.lpc = "created"
    /\ cmd' = IF cmd.loading THEN [cmd EXCEPT !.lpc = "editing"]
              ELSE [cmd EXCEPT !.lpc = "done"]
    /\ CmdFrame

\* ask: asyncio.sleep(0.5) returns; on to the await of the answer generation
NapEnds ==
    /\ cmd.hpc = "nap"
    /\ cmd.lpc # "created"
    /\ cmd' = [cmd EXCEPT !.hpc = "generating"]
    /\ CmdFrame

\* explain, interpret: the lines after the answer generation returned:
\* loading = False, loader_task.cancel(), await loader_task.
\* ask: loading = False, await loader_task.
AfterGeneration(c) ==
    LET c1 == [c EXCEPT !.gen = "returned", !.loading = FALSE,
                        !.cancelled = (c.name # "ask")]
    IN  IF c.lpc = "done"
        THEN [c1 EXCEPT !.awaited = TRUE, !.hpc = "delete"]
        ELSE IF c.lpc = "failed"
        THEN [c1 EXCEPT !.awaited = TRUE, !.hpc = "err_delete"]
        ELSE [c1 EXCEPT !.hpc = "await_loader",
                        !.cancel_req = (c.name # "ask")]

\* Mutation: no except branch sets loading = False.
AfterGenerationErrorKeepsLoading(c) ==
    [c EXCEPT !.gen = "raised", !.hpc = "err_delete"]

\* explain, interpret: the except branch sets loading = False and deletes
\* the placeholder.  ask: the except branch deletes the placeholder.
AfterGenerationError(c) ==
    [c EXCEPT !.gen = "raised",
              !.loading = IF c.name = "ask" THEN c.loading ELSE FALSE,
              !.hpc = "err_delete"]

\* asyncio.to_thread(...) returns or raises.
GenerationEnds ==
    /\ cmd.hpc = "generating"
    /\ cmd.lpc # "created"
    /\ \E raised \in BOOLEAN, detail \in ExceptionDetails :
          cmd' = IF raised THEN Caught(AfterGenerationError(cmd), detail)
                 ELSE Caught(AfterGeneration(cmd), detail)
    /\ CmdFrame

\* The CancelledError reaches update_thinking_message at its await; explain
\* and interpret catch it and the task ends.
LoaderCancelled ==
    /\ cmd.cancel_req
    /\ cmd.lpc \in {"editing", "sleeping", "final_edit", "idle_sleep"}
    /\ cmd' = [cmd EXCEPT !.cancel_req = FALSE, !.lpc = "done"]
    /\ CmdFrame

\* The outcomes of thinking_message.edit
EditOutcomes(c) ==
    IF c.thinking = "deleted" THEN {"not_found"} ELSE {"ok", "error"}

\* thinking_message.edit(content=stage) returns or raises.
\* explain: every exception breaks the loop.  interpret: the exception
\* ends the task.  ask: every exception returns.
EditReturns ==
    /\ cmd.lpc = "editing"
    /\ ~cmd.cancel_req
    /\ \E out \in EditOutcomes(cmd) :
          cmd' = IF out = "ok" THEN [cmd EXCEPT !.lpc = "sleeping"]
                 ELSE IF cmd.name = "interpret"
                 THEN [cmd EXCEPT !.lpc = "failed"]
                 ELSE [cmd EXCEPT !.lpc = "done"]
    /\ CmdFrame

\* asyncio.sleep(2) returns: the next pass of the loop.
SleepReturns ==
    /\ cmd.lpc = "sleeping"
    /\ ~cmd.cancel_req
    /\ cmd' =
         CASE cmd.name = "explain" ->
                 IF cmd.stage = LastStage \/ ~cmd.loading
                 THEN [cmd EXCEPT !.lpc = "done"]
                 ELSE [cmd EXCEPT !.stage = @ + 1, !.lpc = "editing"]
           [] cmd.name = "interpret" ->
                 IF ~cmd.loading THEN [cmd EXCEPT !.lpc = "done"]
                 ELSE IF cmd.stage = LastStage
                 THEN [cmd EXCEPT !.lpc = "final_edit"]
                 ELSE [cmd EXCEPT !.stage = @ + 1, !.lpc = "editing"]
           [] cmd.name = "ask" ->
                 IF cmd.stage + StageSeconds >= FinalSeconds
                 THEN [cmd EXCEPT !.stage = @ + StageSeconds,
                                  !.lpc = "final_edit"]
                 ELSE IF ~cmd.loading
                 THEN [cmd EXCEPT !.stage = @ + StageSeconds, !.lpc = "done"]
                 ELSE [cmd EXCEPT !.stage = @ + StageSeconds,
                                  !.lpc = "editing"]
    /\ CmdFrame

\* The edit to the last stage returns or raises.  interpret: the task ends.
\* ask: on to "while loading: await asyncio.sleep(1)".
FinalEditReturns ==
    /\ cmd.lpc = "final_edit"
    /\ ~cmd.cancel_req
    /\ \E out \in EditOutcomes(cmd) :
          cmd' = IF cmd.name = "interpret"
                 THEN [cmd EXCEPT !.lpc = IF out = "ok" THEN "done"
                                          ELSE "failed"]
                 ELSE IF out = "ok" /\ cmd.loading
                 THEN [cmd EXCEPT !.lpc = "idle_sleep"]
                 ELSE [cmd EXCEPT !.lpc = "done"]
    /\ CmdFrame

\* ask: asyncio.sleep(1) returns; the task sleeps again while loading.
IdleSleepReturns ==
    /\ cmd.lpc = "idle_sleep"
    /\ ~cmd.cancel_req
    /\ cmd' = IF cmd.loading THEN cmd ELSE [cmd EXCEPT !.lpc = "done"]
    /\ CmdFrame

\* "await loader_task" returns, or raises what ended the task.
AwaitLoaderReturns ==
    /\ cmd.hpc = "await_loader"
    /\ LoaderEnded(cmd)
    /\ \E detail \in ExceptionDetails :
          cmd' = IF cmd.lpc = "failed"
                 THEN Caught([cmd EXCEPT !.awaited = TRUE, !.loading = FALSE,
                                         !.hpc = "err_delete"], detail)
                 ELSE [cmd EXCEPT !.awaited = TRUE, !.hpc = "delete"]
    /\ CmdFrame

\* thinking_message.delete() returns; on to the sends of the answer.
DeleteReturns ==
    /\ cmd.hpc = "delete"
    /\ cmd' = [cmd EXCEPT !.thinking = "deleted", !.hpc = "respond"]
    /\ CmdFrame

\* The sends of the answer and the log return or raise.
RespondReturns ==
    /\ cmd.hpc = "respond"
    /\ \E ok \in BOOLEAN, detail \in ExceptionDetails :
          cmd' = IF ok THEN [cmd EXCEPT !.hpc = "done"]
                 ELSE Caught([cmd EXCEPT
                                 !.loading = IF cmd.name = "ask" THEN @
                                             ELSE FALSE,
                                 !.hpc = "err_delete"], detail)
    /\ CmdFrame

\* The delete of the except branch returns or raises.  explain and ask
\* pass over an exception; interpret lets it end the handler.
ErrDeleteReturns ==
    /\ cmd.hpc = "err_delete"
    /\ cmd' = IF cmd.thinking = "deleted" /\ cmd.name = "interpret"
              THEN [cmd EXCEPT !.hpc = "crashed"]
              ELSE [cmd EXCEPT !.thinking = "deleted", !.hpc = "err_send"]
    /\ CmdFrame

\* The send of the error text returns.
ErrSendReturns ==
    /\ cmd.hpc = "err_send"
    /\ cmd' = [cmd EXCEPT !.hpc = "done",
                          !.text = ErrorText(cmd.name, cmd.error)]
    /\ CmdFrame

-----------------------------------------------------------------------------
(* inference: the retrieval functions *)

MaxEntries == 3      \* entries of an embeddings list
MaxTopN    == 3      \* largest top_n of a direct call
MaxRanked  == 3      \* documents handed to generate_context_from_documents

RelevanceFloor   == 3      \* "if sim > 0.3", similarities counted in tenths
TopN             == 3      \* top_n=3 in generate_response_with_context
DefaultMaxLength == 2000   \* max_length=2000
FormatOverhead   == 56     \* characters of a formatted document besides
                           \* the url (twice) and the content; the
                           \* similarity is printed as d.dd
JoinLength       == 2      \* "\n\n".join(...)

Min(a, b) == IF a < b THEN a ELSE b

\* An entry of the embeddings list, seen from one query: sim is the cosine
\* similarity of its embedding to the query embedding, in tenths; ok is
\* FALSE when the entry lacks "url" or "embedding", or when its embedding
\* cannot be compared.  url and content are lengths in characters.
Entry(sim, ok, url, content) ==
    [sim |-> sim, ok |-> ok, url |-> url, content |-> content]

\* compute_similarity: one tuple per entry, in the order of the list; an
\* entry that raises is logged and skipped.  pos stands for the entry.
compute_similarity(embeddings_list) ==
    LET Tuple(i) == [pos |-> i, sim |-> embeddings_list[i].sim,
                     ok |-> embeddings_list[i].ok,
                     url |-> embeddings_list[i].url,
                     content |-> embeddings_list[i].content]
        all    == [i \in 1..Len(embeddings_list) |-> Tuple(i)]
        Ok(t)  == t.ok
    IN  SelectSeq(all, Ok)

\* Mutation: an element goes in front of the elements of equal similarity.
InsertByKeyBeforeEqual(sorted, e) ==
    LET k == Cardinality({i \in 1..Len(sorted) : sorted[i].sim > e.sim})
    IN  SubSeq(sorted, 1, k) \o <<e>> \o SubSeq(sorted, k + 1, Len(sorted))

\* sorted(..., key=lambda x: x[1], reverse=True) keeps the elements of
\* equal key in their original order: an element taken from the input goes
\* behind the elements placed so far whose similarity is not smaller.
InsertByKey(sorted, e) ==
    LET k == Cardinality({i \in 1..Len(sorted) : sorted[i].sim >= e.sim})
    IN  SubSeq(sorted, 1, k) \o <<e>> \o SubSeq(sorted, k + 1, Len(sorted))

RECURSIVE SortedDescending(_)
SortedDescending(s) ==
    IF s = <<>> THEN <<>>
    ELSE InsertByKey(SortedDescending(SubSeq(s, 1, Len(s) - 1)), s[Len(s)])

\* find_most_similar_documents
find_most_similar_documents(embeddings_list, top_n) ==
    LET similarities == compute_similarity(embeddings_list)
        Clears(t)    == t.sim > RelevanceFloor
        filtered_similarities == SelectSeq(similarities, Clears)
        sorted_similarities   == SortedDescending(filtered_similarities)
    IN  SubSeq(sorted_similarities, 1, Min(top_n, Len(sorted_similarities)))

\* len(formatted_content) of one document
FormattedLength(d) == FormatOverhead + 2 * d.url + d.content

\* generate_context_from_documents: the loop, from document i on
RECURSIVE ContextParts(_, _, _, _, _)
ContextParts(similar_docs, max_length, i, current_length, context_parts) ==
    IF i > Len(similar_docs) \/ current_length >= max_length
    THEN context_parts
    ELSE ContextParts(similar_docs, max_length, i + 1,
                      current_length + FormattedLength(similar_docs[i]),
                      Append(context_parts, similar_docs[i]))

\* len("\n\n".join(context_parts))
RECURSIVE JoinedLength(_)
JoinedLength(parts) ==
    IF parts = <<>> THEN 0
    ELSE IF Len(parts) = 1 THEN FormattedLength(parts[1])
    ELSE JoinedLength(SubSeq(parts, 1, Len(parts) - 1)) + JoinLength
         + FormattedLength(parts[Len(parts)])

\* generate_context_from_documents: the documents of the context string
\* and its length
generate_context_from_documents(similar_docs, max_length) ==
    LET parts == ContextParts(similar_docs, max_length, 1, 0, <<>>)
    IN  [parts |-> parts, length |-> JoinedLength(parts)]

\* Inputs of the direct calls
Similarities   == 2..5
UrlLengths     == {20}
ContentLengths == {0, 900, 1900, 3000}
MaxLengths     == {0, 1000, DefaultMaxLength}

RECURSIVE SeqsUpTo(_, _)
SeqsUpTo(S, n) ==
    IF n = 0 THEN {<<>>}
    ELSE LET shorter == SeqsUpTo(S, n - 1)
         IN  shorter \cup {Append(s, x) : s \in shorter, x \in S}

EmbeddingsLists ==
    SeqsUpTo({Entry(sim, ok, 20, 900) : sim \in Similarities,
                                         ok \in BOOLEAN}, MaxEntries)

RankedLists ==
    LET lists == SeqsUpTo({Entry(5, TRUE, url, content) :
                              url \in UrlLengths,
                              content \in ContentLengths}, MaxRanked)
    IN  {compute_similarity(l) : l \in lists}

NoRank == [done |-> FALSE, embeddings_list |-> <<>>, top_n |-> 1,
           out |-> <<>>]
NoContext == [done |-> FALSE, similar_docs |-> <<>>, max_length |-> 0,
              out |-> [parts |-> <<>>, length |-> 0]]

\* A call find_most_similar_documents(_, embeddings_list, _, top_n)
FindMostSimilar ==
    /\ ~rank.done
    /\ rank' = [rank EXCEPT
                   !.done = TRUE,
                   !.out = find_most_similar_documents(rank.embeddings_list,
                                                       rank.top_n)]
    /\ UNCHANGED <<listenerVars, now, trainVars, cmd, latest_model,
                   interactions, ans, ctx, ds, processVars>>

\* A call generate_context_from_documents(similar_docs, max_length)
GenerateContext ==
    /\ ~ctx.done
    /\ ctx' = [ctx EXCEPT
                  !.done = TRUE,
                  !.out = generate_context_from_documents(ctx.similar_docs,
                                                          ctx.max_length)]
    /\ UNCHANGED <<listenerVars, now, trainVars, cmd, latest_model,
                   interactions, ans, rank, ds, processVars>>

-----------------------------------------------------------------------------
(* inference: generate_response_with_context and log_query_and_response *)

MaxInteractions == 2   \* Interaction records in the logs collection

Queries   == {"q1", "q2"}
Usernames == {"alice"}

\* What the calls that leave the process return to one
\* generate_response_with_context call.
\*   file, mongo  the embeddings file / the embeddings collection: loaded
\*                (ok) with its list, or raising
\*   embedding    client.embeddings.create: "ok" or "raises"
\*   primary      the first completion call: "ok", "raises" or "timeout"
\*   analysis     the second completion call: raising, or its content,
\*                with or without a code fence around the body
\*   insert       log_collection.insert_one succeeds
KnowledgeList == <<Entry(5, TRUE, 20, 900), Entry(2, TRUE, 20, 900)>>

Loads == {[ok |-> FALSE, list |-> <<>>], [ok |-> TRUE, list |-> <<>>],
          [ok |-> TRUE, list |-> KnowledgeList]}

AnalysisBodies == {"", "malformed", "list", "object", "object_no_keys"}

AnalysisReplies ==
    [raises : {FALSE}, fence : BOOLEAN, body : AnalysisBodies]
    \cup {[raises |-> TRUE, fence |-> FALSE, body |-> ""]}

\* A call that is not made has no outcome: it is listed with one value.
NotLoaded == [ok |-> FALSE, list |-> <<>>]
NoReply   == [raises |-> TRUE, fence |-> FALSE, body |-> ""]

Environments ==
    {env \in [file : Loads, mongo : Loads, embedding : {"ok", "raises"},
              primary : {"ok", "raises", "timeout"},
              analysis : AnalysisReplies, insert : BOOLEAN] :
        /\ env.file.ok => env.mongo = NotLoaded
        /\ (~env.file.ok /\ ~env.mongo.ok) => env.embedding = "raises"
        /\ env.embedding = "raises" => env.primary = "raises"
        /\ env.primary # "ok" => env.analysis = NoReply
        /\ env.analysis.body \notin {"object", "object_no_keys"}
              => env.insert}

\* Every call that leaves the process succeeds.
HealthyEnvironments ==
    {env \in Environments :
        /\ env.file = [ok |-> TRUE, list |-> KnowledgeList]
        /\ env.mongo = NotLoaded
        /\ env.embedding = "ok" /\ env.primary = "ok"
        /\ env.analysis = [raises |-> FALSE, fence |-> TRUE,
                           body |-> "object"]
        /\ env.insert}

LoadFailure     == "Failed to retrieve embeddings from file and MongoDB."
GenerationError == "Sorry, there was an error generating the response."
AnalysisError   == "Sorry, there was an error processing the analysis."

\* The content of the first completion, stripped
AnswerText(q) == IF q = "q1" THEN "answer1" ELSE "answer2"

\* get_latest_fine_tuned_model: the last non-empty line of
\* latest_model.txt, or the base model
NoModelFile == [exists |-> FALSE, lines |-> <<>>]

get_latest_fine_tuned_model(file) ==
    IF ~file.exists THEN DefaultModel
    ELSE IF Len(file.lines) > 0 THEN file.lines[Len(file.lines)]
    ELSE DefaultModel

\* load_embeddings: json.load of the file; when that raises, the
\* collection; when that raises too, an exception
load_embeddings(file, mongo) ==
    IF file.ok THEN [raised |-> FALSE, list |-> file.list, source |-> "file"]
    ELSE IF mongo.ok
         THEN [raised |-> FALSE, list |-> mongo.list, source |-> "mongo"]
         ELSE [raised |-> TRUE, list |-> <<>>, source |-> "none"]

\* re.sub(r'^(?:json\s*)?```(?:json\s*)?|```$', '', raw).strip()
cleaned_response(reply) == reply.body

\* json.loads(cleaned_response): "decode_error", or the kind of value
json_loads(cleaned) ==
    IF cleaned = "malformed" THEN "decode_error"
    ELSE IF cleaned = "list" THEN "not_an_object"
    ELSE "object"

\* analysis_json.get('topics', []) and analysis_json.get('tags', [])
Topics(cleaned) == IF cleaned = "object" THEN <<"bridging">> ELSE <<>>
Tags(cleaned)   == IF cleaned = "object" THEN <<"fees">> ELSE <<>>

\* The log_entry of log_query_and_response, without its timestamp
Interaction(q, response, username, topics, tags) ==
    [query |-> q, response |-> response, username |-> username,
     topics |-> topics, tags |-> tags]

\* log_query_and_response: an insert_one that raises is logged only
log_query_and_response(collection, entries, insert_ok) ==
    IF insert_ok THEN collection \o entries ELSE collection

\* generate_response_with_context, lines 165-207: the second completion
\* call, the parsing of its content, and the log.  value is what the
\* function returns; log holds the entry handed to log_query_and_response.
Analyse(q, username, response_text, reply) ==
    IF reply.raises
    THEN [value |-> GenerationError, failure |-> "analysis_call",
          log |-> <<>>]
    ELSE LET cleaned == cleaned_response(reply) IN
         IF cleaned = ""
         THEN [value |-> AnalysisError, failure |-> "analysis_empty",
               log |-> <<>>]
         ELSE LET parsed == json_loads(cleaned) IN
              CASE parsed = "decode_error" ->
                      [value |-> response_text, failure |-> "analysis_json",
                       log |-> <<>>]
                [] parsed = "not_an_object" ->
                      [value |-> GenerationError,
                       failure |-> "analysis_shape", log |-> <<>>]
                [] parsed = "object" ->
                      [value |-> response_text, failure |-> "none",
                       log |-> <<Interaction(q, response_text, username,
                                             Topics(cleaned),
                                             Tags(cleaned))>>]

\* Mutation: the failed first completion is logged as an interaction.
CompleteLogsFailure(q, username, primary, reply) ==
    IF primary # "ok"
    THEN [value |-> GenerationError, failure |-> "primary",
          log |-> <<Interaction(q, GenerationError, username, <<>>, <<>>)>>]
    ELSE Analyse(q, username, AnswerText(q), reply)

\* generate_response_with_context, lines 153-211: the first completion
\* call inside the outer try
Complete(q, username, primary, reply) ==
    IF primary # "ok"
    THEN [value |-> GenerationError, failure |-> "primary", log |-> <<>>]
    ELSE Analyse(q, username, AnswerText(q), reply)

\* generate_response_with_context.  raised is TRUE when the call ends with
\* an exception; requests counts the completion requests sent to model.
generate_response_with_context(q, username, model_file, env) ==
    LET model_name == get_latest_fine_tuned_model(model_file)
        loaded     == load_embeddings(env.file, env.mongo)
        base       == [raised |-> FALSE, value |-> "", failure |-> "none",
                       log |-> <<>>, model |-> model_name,
                       source |-> loaded.source,
                       entries |-> Len(loaded.list), documents |-> 0,
                       context |-> 0, requests |-> 0]
    IN  IF loaded.raised
        THEN [base EXCEPT !.value = LoadFailure, !.failure = "load"]
        ELSE IF env.embedding = "raises"
        THEN [base EXCEPT !.raised = TRUE, !.failure = "embedding"]
        ELSE LET most_similar_docs ==
                     find_most_similar_documents(loaded.list, TopN)
                 context ==
                     generate_context_from_documents(most_similar_docs,
                                                     DefaultMaxLength)
                 out == Complete(q, username, env.primary, env.analysis)
             IN  [base EXCEPT
                     !.value = out.value, !.failure = out.failure,
                     !.log = out.log,
                     !.documents = Len(most_similar_docs),
                     !.context = context.length,
                     !.requests = IF env.primary # "ok" THEN 1 ELSE 2]

\* The fine-tuned model id that a training cycle has obtained
ObtainedModel ==
    IF tr.pc = "done" /\ tr.observed = "succeeded" THEN tr.model ELSE "none"

\* The state of the program before the first answer call.
\*   file      how the embeddings file was found: "raises", "empty", "docs"
\*   trained   ObtainedModel at the time of the call
\*   before    the number of Interaction records at the time of the call
NoAnswer ==
    [called |-> FALSE, q |-> "none", raised |-> FALSE, value |-> "",
     failure |-> "none", model |-> "none", source |-> "none",
     file |-> "none", entries |-> 0, documents |-> 0, context |-> 0,
     requests |-> 0, trained |-> "none", before |-> 0]

FileState(load) ==
    IF ~load.ok THEN "raises"
    ELSE IF load.list = <<>> THEN "empty" ELSE "docs"

\* One call generate_response_with_context(q, username), with the calls
\* that leave the process answered as in one of envs.
Answer(q, username, envs) ==
    /\ Len(interactions) < MaxInteractions
    /\ \E env \in envs :
          \E out \in {generate_response_with_context(q, username,
                                                     latest_model, env)} :
              /\ ans' = [called |-> TRUE, q |-> q, raised |-> out.raised,
                         value |-> out.value, failure |-> out.failure,
                         model |-> out.model, source |-> out.source,
                         file |-> FileState(env.file),
                         entries |-> out.entries,
                         documents |-> out.documents,
                         context |-> out.context,
                         requests |-> out.requests,
                         trained |-> ObtainedModel,
                         before |-> Len(interactions)]
              /\ interactions' =
                    log_query_and_response(interactions, out.log, env.insert)
    /\ UNCHANGED <<listenerVars, now, trainVars, cmd, latest_model, rank,
                   ctx, ds, processVars>>

\* No answer call was made and no retrieval function was called directly.
AnswerIdle ==
    /\ latest_model = NoModelFile
    /\ interactions = <<>>
    /\ ans = NoAnswer
    /\ rank = NoRank
    /\ ctx = NoContext
    /\ ds = NoDataset

-----------------------------------------------------------------------------
(* LogManager.stream_log and the transcript that the listener reads *)

MAX_FIELD_LENGTH == 1024   \* LogManager.MAX_FIELD_LENGTH
MAX_CHUNKS       == 4      \* LogManager.MAX_CHUNKS

\* message.author of the logged command, message.content with its length,
\* and the answer as the number of chunks split_long_message makes of it
Authors == [name : {"alice", "bob"}, id : {"11", "22"}]
LoggedQueries ==
    {[text |-> "how do I bridge", length |-> 15],
     [text |-> "a long question", length |-> 2000]}
LoggedResponses == {[text |-> "answer", chunks |-> n] : n \in {1, 4, 5}}

\* stream_log: the query field, cut to MAX_FIELD_LENGTH
QueryField(q) ==
    IF q.length > MAX_FIELD_LENGTH
    THEN [text |-> q.text, length |-> MAX_FIELD_LENGTH, cut |-> TRUE]
    ELSE [text |-> q.text, length |-> q.length, cut |-> FALSE]

\* stream_log: the messages sent to the log channel are embeds, the
\* first with the fields "User" and "Query", then one per chunk of the
\* response up to MAX_CHUNKS.  No send carries a file.
LogEmbeds(author, q, r) ==
    [user |-> author, query |-> QueryField(q),
     response |-> [text   |-> r.text,
                   chunks |-> IF r.chunks > MAX_CHUNKS THEN MAX_CHUNKS
                              ELSE r.chunks]]

stream_log(has_channel, author, q, r) ==
    IF ~has_channel
    THEN [sent |-> FALSE, attachments |-> <<>>,
          embeds |-> LogEmbeds(author, q, r)]
    ELSE [sent |-> TRUE, attachments |-> <<>>,
          embeds |-> LogEmbeds(author, q, r)]

NoLogData == [ok |-> FALSE, username |-> "none", user_id |-> "none",
              query |-> "none", response |-> "none"]

\* get_txt_attachment and process_log_file over the attachments of a
\* message: the groups of the three patterns, or None.
ReadTranscript(attachments) ==
    IF Len(attachments) = 0 THEN NoLogData
    ELSE IF ~process_log_file(attachments[1].markers) THEN NoLogData
    ELSE [ok |-> TRUE, username |-> attachments[1].username,
          user_id |-> attachments[1].user_id,
          query |-> attachments[1].query,
          response |-> attachments[1].response]

NoLog ==
    [pc |-> "idle", has_channel |-> FALSE,
     author |-> [name |-> "alice", id |-> "11"],
     query |-> [text |-> "how do I bridge", length |-> 15],
     response |-> [text |-> "answer", chunks |-> 1],
     message |-> [sent |-> FALSE, attachments |-> <<>>,
                  embeds |-> LogEmbeds([name |-> "alice", id |-> "11"],
                                       [text |-> "how do I bridge",
                                        length |-> 15],
                                       [text |-> "answer", chunks |-> 1])],
     data |-> NoLogData]

\* A command handler calls log_manager.stream_log(ctx.message, explanation).
StreamLog ==
    /\ logmsg.pc = "answered"
    /\ logmsg' = [logmsg EXCEPT
                     !.pc = "logged",
                     !.message = stream_log(logmsg.has_channel,
                                            logmsg.author, logmsg.query,
                                            logmsg.response)]
    /\ UNCHANGED <<listenerVars, now, trainVars, cmd, answerVars,
                   openai_client, boot>>

\* The listener reads the transcript of the log message, as it does for a
\* reaction on it.
ReadLogMessage ==
    /\ logmsg.pc = "logged"
    /\ logmsg' = [logmsg EXCEPT
                     !.pc = "read",
                     !.data = ReadTranscript(logmsg.message.attachments)]
    /\ UNCHANGED <<listenerVars, now, trainVars, cmd, answerVars,
                   openai_client, boot>>

-----------------------------------------------------------------------------
(* inference.get_openai_client, called on worker threads *)

MaxThreads == 3      \* worker threads of asyncio.to_thread that run an
                     \* answer call at the same time

ThreadIds == 1..MaxThreads

\* exists: _openai_client is not None.  constructed: OpenAI(...) calls
\* made so far.  threads: where each thread is in get_openai_client.
NoClient ==
    [exists |-> FALSE, constructed |-> 0,
     threads |-> [t \in ThreadIds |-> "idle"]]

\* generate_response_with_context calls get_openai_client().
ClientCall(t) ==
    /\ openai_client.threads[t] = "idle"
    /\ openai_client' = [openai_client EXCEPT !.threads[t] = "test"]
    /\ UNCHANGED <<listenerVars, now, trainVars, cmd, answerVars, logmsg,
                   boot>>

\* "if _openai_client is None": the thread reads the global.
ClientTest(t) ==
    /\ openai_client.threads[t] = "test"
    /\ openai_client' =
          [openai_client EXCEPT
              !.threads[t] = IF openai_client.exists THEN "return"
                             ELSE "construct"]
    /\ UNCHANGED <<listenerVars, now, trainVars, cmd, answerVars, logmsg,
                   boot>>

\* "_openai_client = OpenAI(...)": the constructor runs and the global is
\* assigned.  Threads switch between the test and this line.
ClientConstruct(t) ==
    /\ openai_client.threads[t] = "construct"
    /\ openai_client' =
          [openai_client EXCEPT
              !.exists = TRUE,
              !.constructed = IF @ < MaxThreads THEN @ + 1 ELSE @,
              !.threads[t] = "return"]
    /\ UNCHANGED <<listenerVars, now, trainVars, cmd, answerVars, logmsg,
                   boot>>

\* "return _openai_client"
ClientReturn(t) ==
    /\ openai_client.threads[t] = "return"
    /\ openai_client' = [openai_client EXCEPT !.threads[t] = "done"]
    /\ UNCHANGED <<listenerVars, now, trainVars, cmd, answerVars, logmsg,
                   boot>>

-----------------------------------------------------------------------------
(* Restart of the bot process *)

MaxRestarts == 1     \* restarts of the process

NoBoot == [restarts |-> 0, at |-> 0]

\* Mutation: the feedback entries are kept in process memory and are lost
\* with the process.
RestartLosesStore ==
    /\ boot.restarts < MaxRestarts
    /\ boot' = [restarts |-> boot.restarts + 1, at |-> now]
    /\ is_ready' = FALSE
    /\ channel' = "none"
    /\ handlers' = EmptyBag
    /\ store' = <<>>
    /\ UNCHANGED <<sent, lastHandled, posted, now, trainVars, cmd,
                   answerVars, logmsg, openai_client>>

\* The process ends and starts again: RLHFListener.__init__ sets channel
\* to None and is_ready to False, and the suspended handlers are gone.
\* The feedback collection and the messages of the log channel stay.
Restart ==
    /\ boot.restarts < MaxRestarts
    /\ boot' = [restarts |-> boot.restarts + 1, at |-> now]
    /\ is_ready' = FALSE
    /\ channel' = "none"
    /\ handlers' = EmptyBag
    /\ store' = store
    /\ UNCHANGED <<sent, lastHandled, posted, now, trainVars, cmd,
                   answerVars, logmsg, openai_client>>

\* No stream_log call, no get_openai_client call, no restart.
ProcessIdle ==
    /\ logmsg = NoLog
    /\ openai_client = NoClient
    /\ boot = NoBoot

-----------------------------------------------------------------------------
(* Initial state and specifications *)

Init ==
    /\ is_ready = FALSE
    /\ channel = "none"
    /\ store = <<>>
    /\ handlers = EmptyBag
    /\ sent = 0
    /\ lastHandled = NoEvent
    /\ posted = {"m2", "m3"}
    /\ now = 0
    /\ loops = [l \in LoopIds |-> LoopOff]
    /\ call = NoCall
    /\ tr = TrainerIdle
    /\ job = NoJob
    /\ cmd = NoCmd
    /\ AnswerIdle
    /\ ProcessIdle

\* The listener with concurrently running reaction handlers.
Next ==
    \/ OnReady
    \/ \E m \in Messages : PostMessage(m)
    \/ \E ev \in ConcurrentEvents : Deliver(ev)
    \/ HandlerStep

Spec == Init /\ [][Next]_vars

\* One reviewer changing a reaction on m1, the delivery order of the
\* events noted, with concurrently running handlers.
RaceEvents ==
    {Event("m1", "admin1", "thumbsup"), Event("m1", "admin1", "thumbsdown")}

NextRace ==
    \/ OnReady
    \/ \E m \in Messages : PostMessage(m)
    \/ \E ev \in RaceEvents : DeliverInOrder(ev)
    \/ HandlerStep

SpecRace == Init /\ [][NextRace]_vars

\* Reactions of an administrator on a log message of the bot and on a
\* message that was posted by hand, handled one at a time, with the clock.
AuthorEvents ==
    {Event(m, "admin1", e) : m \in {"m1", "m4"},
                             e \in {"thumbsup", "thumbsdown"}}

NextAuthors ==
    \/ OnReady
    \/ \E m \in Messages \cup HumanMessages : PostMessage(m)
    \/ \E ev \in AuthorEvents : RecordReaction(ev)
    \/ Tick

SpecAuthors == Init /\ [][NextAuthors]_vars

\* Two reviewers reacting on m1, handled one at a time, with the clock
\* and restarts of the process.
RestartEvents ==
    {Event("m1", "admin1", "thumbsup"), Event("m1", "admin1", "thumbsdown"),
     Event("m1", "admin2", "thumbsup")}

NextRestart ==
    \/ OnReady
    \/ \E m \in Messages : PostMessage(m)
    \/ \E ev \in RestartEvents : RecordReaction(ev)
    \/ Tick
    \/ Restart

SpecRestart == Init /\ [][NextRestart]_vars

\* Answer calls on up to MaxThreads worker threads.
NextClient ==
    \/ \E t \in ThreadIds : ClientCall(t)
    \/ \E t \in ThreadIds : ClientTest(t)
    \/ \E t \in ThreadIds : ClientConstruct(t)
    \/ \E t \in ThreadIds : ClientReturn(t)

SpecClient == Init /\ [][NextClient]_vars

\* The listener handling one reaction event at a time, with the clock.
NextSeq ==
    \/ OnReady
    \/ \E m \in Messages : PostMessage(m)
    \/ \E ev \in SequentialEvents : RecordReaction(ev)
    \/ \E ev \in SequentialEvents : ReactionRemove(ev.m, ev.u)
    \/ Tick

SpecSeq == Init /\ [][NextSeq]_vars

\* The reaction events of the runs with training cycles.
CycleEvents ==
    {Event("m1", "admin1", "thumbsup"), Event("m1", "admin2", "thumbsdown"),
     Event("m1", "member", "thumbsup")}

\* The listener with the clock and direct calls of run_training_cycle.
NextCycle ==
    \/ OnReady
    \/ \E m \in Messages : PostMessage(m)
    \/ \E ev \in CycleEvents : RecordReaction(ev)
    \/ Tick
    \/ \E n \in 0..MaxMinCount : CallTrainingCycle(n)

SpecCycle == Init /\ [][NextCycle]_vars

\* The listener with the clock and the periodic training loops.  A sleep
\* that was started ends, and a loop that is due to call
\* run_training_cycle calls it.
NextSched ==
    \/ OnReady
    \/ \E m \in Messages : PostMessage(m)
    \/ \E ev \in CycleEvents : RecordReaction(ev)
    \/ Tick
    \/ \E l \in LoopIds : Learn(l)
    \/ \E l \in LoopIds : LoopCycle(l)
    \/ \E l \in LoopIds : LoopWake(l)

SpecSched ==
    /\ Init
    /\ [][NextSched]_vars
    /\ \A l \in LoopIds : WF_vars(LoopCycle(l)) /\ WF_vars(LoopWake(l))

\* The learn command invoked up to MaxLearns times, each invocation with
\* the run_periodic_training task it creates, and the clock.
LearnIds == 1..MaxLearns

InitLearn ==
    /\ is_ready = FALSE
    /\ channel = "none"
    /\ store = <<>>
    /\ handlers = EmptyBag
    /\ sent = 0
    /\ lastHandled = NoEvent
    /\ posted = {"m2", "m3"}
    /\ now = 0
    /\ loops = [l \in LearnIds |-> LoopOff]
    /\ call = NoCall
    /\ tr = TrainerIdle
    /\ job = NoJob
    /\ cmd = NoCmd
    /\ AnswerIdle
    /\ ProcessIdle

NextLearn ==
    \/ OnReady
    \/ Tick
    \/ \E l \in LearnIds : Learn(l)
    \/ \E l \in LearnIds : LoopCycle(l)
    \/ \E l \in LearnIds : LoopWake(l)

SpecLearn == InitLearn /\ [][NextLearn]_vars

\* The trainer part of a training cycle, from every dataset size.  (No
\* dataset reaches it from documents that the listener wrote: CycleHead
\* raises on them.)
InitTrainer ==
    /\ is_ready = FALSE
    /\ channel = "none"
    /\ store = <<>>
    /\ handlers = EmptyBag
    /\ sent = 0
    /\ lastHandled = NoEvent
    /\ posted = {"m2", "m3"}
    /\ now = 0
    /\ loops = [l \in LoopIds |-> LoopOff]
    /\ call = NoCall
    /\ \E size \in 1..MaxDataset : tr = TrainerStart(size)
    /\ job = NoJob
    /\ cmd = NoCmd
    /\ AnswerIdle
    /\ ProcessIdle

NextTrainer ==
    \/ PrepareTrainingFile
    \/ UploadFile
    \/ CreateJob
    \/ JobStatus
    \/ JobEvents
    \/ PollEvents
    \/ PollStatus
    \/ PollWake
    \/ JobProgress

SpecTrainer == InitTrainer /\ [][NextTrainer]_vars

\* The trainer part of a cycle with every step of the client taken when
\* it stays possible.  The provider need not move the job on.
TrainerFairness ==
    /\ WF_vars(PrepareTrainingFile) /\ WF_vars(UploadFile)
    /\ WF_vars(CreateJob) /\ WF_vars(JobStatus) /\ WF_vars(JobEvents)
    /\ WF_vars(PollEvents) /\ WF_vars(PollStatus) /\ WF_vars(PollWake)

SpecTrainerFair == InitTrainer /\ [][NextTrainer]_vars /\ TrainerFairness

\* A periodic training loop whose cycle has reached the trainer, from
\* every dataset size, and the later passes of the loop.
InitLoopTraining ==
    /\ is_ready = FALSE
    /\ channel = "none"
    /\ store = <<>>
    /\ handlers = EmptyBag
    /\ sent = 0
    /\ lastHandled = NoEvent
    /\ posted = {"m2", "m3"}
    /\ now = 0
    /\ loops = [l \in LoopIds |->
                  IF l = 1 THEN [LoopOff EXCEPT !.pc = "training"]
                  ELSE LoopOff]
    /\ call = NoCall
    /\ \E size \in 1..MaxDataset : tr = TrainerStart(size)
    /\ job = NoJob
    /\ cmd = NoCmd
    /\ AnswerIdle
    /\ ProcessIdle

NextLoopTraining ==
    \/ NextTrainer
    \/ \E l \in LoopIds : LoopCycleEnds(l)
    \/ \E l \in LoopIds : LoopWake(l)
    \/ \E l \in LoopIds : LoopCycle(l)

SpecLoopTraining ==
    /\ InitLoopTraining
    /\ [][NextLoopTraining]_vars
    /\ TrainerFairness
    /\ \A l \in LoopIds :
          WF_vars(LoopCycleEnds(l)) /\ WF_vars(LoopWake(l))
          /\ WF_vars(LoopCycle(l))

\* The listener writing feedback while training cycles run: direct calls
\* of run_training_cycle, and the trainer part of a cycle from every
\* dataset size.
InitStore ==
    /\ is_ready = FALSE
    /\ channel = "none"
    /\ store = <<>>
    /\ handlers = EmptyBag
    /\ sent = 0
    /\ lastHandled = NoEvent
    /\ posted = {"m2", "m3"}
    /\ now = 0
    /\ loops = [l \in LoopIds |-> LoopOff]
    /\ call = NoCall
    /\ tr \in {TrainerIdle} \cup {TrainerStart(size) : size \in 1..MaxDataset}
    /\ job = NoJob
    /\ cmd = NoCmd
    /\ AnswerIdle
    /\ ProcessIdle

NextStore ==
    \/ OnReady
    \/ \E m \in Messages : PostMessage(m)
    \/ \E ev \in CycleEvents : RecordReaction(ev)
    \/ \E n \in 0..MaxMinCount : CallTrainingCycle(n)
    \/ NextTrainer

SpecStore == InitStore /\ [][NextStore]_vars

\* The commands, one invocation at a time.
NextCmd ==
    \/ \E name \in Commands : CmdStart(name)
    \/ ThinkingSent
    \/ LoaderStart
    \/ NapEnds
    \/ GenerationEnds
    \/ LoaderCancelled
    \/ EditReturns
    \/ SleepReturns
    \/ FinalEditReturns
    \/ IdleSleepReturns
    \/ AwaitLoaderReturns
    \/ DeleteReturns
    \/ RespondReturns
    \/ ErrDeleteReturns
    \/ ErrSendReturns

SpecCmd == Init /\ [][NextCmd]_vars

\* The commands with every step of a handler and of an indicator task
\* taken when it stays possible; users need not send further commands.
SpecCmdFair ==
    /\ Init
    /\ [][NextCmd]_vars
    /\ WF_vars(ThinkingSent) /\ WF_vars(LoaderStart) /\ WF_vars(NapEnds)
    /\ WF_vars(GenerationEnds) /\ WF_vars(LoaderCancelled)
    /\ WF_vars(EditReturns) /\ WF_vars(SleepReturns)
    /\ WF_vars(FinalEditReturns) /\ WF_vars(IdleSleepReturns)
    /\ WF_vars(AwaitLoaderReturns) /\ WF_vars(DeleteReturns)
    /\ WF_vars(RespondReturns) /\ WF_vars(ErrDeleteReturns)
    /\ WF_vars(ErrSendReturns)

\* The bot before any event, command or training cycle.
BotIdle ==
    /\ is_ready = FALSE
    /\ channel = "none"
    /\ store = <<>>
    /\ handlers = EmptyBag
    /\ sent = 0
    /\ lastHandled = NoEvent
    /\ posted = {"m2", "m3"}
    /\ now = 0
    /\ loops = [l \in LoopIds |-> LoopOff]
    /\ call = NoCall
    /\ tr = TrainerIdle
    /\ job = NoJob
    /\ cmd = NoCmd

\* latest_model.txt as a deployment may hold it
ModelFiles ==
    {NoModelFile, [exists |-> TRUE, lines |-> <<>>],
     [exists |-> TRUE, lines |-> <<"ft-old">>]}

\* Answer calls, one at a time, with every outcome of the calls that
\* leave the process.
InitAnswer ==
    /\ BotIdle
    /\ latest_model \in ModelFiles
    /\ interactions = <<>>
    /\ ans = NoAnswer
    /\ rank = NoRank
    /\ ctx = NoContext
    /\ ds = NoDataset
    /\ ProcessIdle

NextAnswer ==
    \E q \in Queries, username \in Usernames :
        Answer(q, username, Environments)

SpecAnswer == InitAnswer /\ [][NextAnswer]_vars

\* find_most_similar_documents on every embeddings list and top_n
InitRank ==
    /\ BotIdle
    /\ latest_model = NoModelFile
    /\ interactions = <<>>
    /\ ans = NoAnswer
    /\ \E l \in EmbeddingsLists, k \in 1..MaxTopN :
          rank = [NoRank EXCEPT !.embeddings_list = l, !.top_n = k]
    /\ ctx = NoContext
    /\ ds = NoDataset
    /\ ProcessIdle

NextRank == FindMostSimilar

SpecRank == InitRank /\ [][NextRank]_vars

\* generate_context_from_documents on every ranked list and max_length
InitContext ==
    /\ BotIdle
    /\ latest_model = NoModelFile
    /\ interactions = <<>>
    /\ ans = NoAnswer
    /\ rank = NoRank
    /\ \E docs \in RankedLists, max_length \in MaxLengths :
          ctx = [NoContext EXCEPT !.similar_docs = docs,
                                  !.max_length = max_length]
    /\ ds = NoDataset
    /\ ProcessIdle

NextContext == GenerateContext

SpecContext == InitContext /\ [][NextContext]_vars

\* The trainer part of a training cycle next to answer calls whose
\* outside calls all succeed.
NextDeploy ==
    \/ NextTrainer
    \/ \E q \in Queries, username \in Usernames :
          Answer(q, username, HealthyEnvironments)

SpecDeploy == InitTrainer /\ [][NextDeploy]_vars

\* The trainer part of a training cycle for every configured model name
ModelNames == AvailableModels \cup {"gpt-3.5-turbo"}

InitTrainerModels ==
    /\ is_ready = FALSE
    /\ channel = "none"
    /\ store = <<>>
    /\ handlers = EmptyBag
    /\ sent = 0
    /\ lastHandled = NoEvent
    /\ posted = {"m2", "m3"}
    /\ now = 0
    /\ loops = [l \in LoopIds |-> LoopOff]
    /\ call = NoCall
    /\ \E size \in 1..MaxDataset, name \in ModelNames :
          tr = [TrainerStart(size) EXCEPT !.model_name = name]
    /\ job = NoJob
    /\ cmd = NoCmd
    /\ AnswerIdle
    /\ ProcessIdle

SpecTrainerModels == InitTrainerModels /\ [][NextTrainer]_vars

\* create_labeled_dataset on every list of entries
InitDataset ==
    /\ BotIdle
    /\ latest_model = NoModelFile
    /\ interactions = <<>>
    /\ ans = NoAnswer
    /\ rank = NoRank
    /\ ctx = NoContext
    /\ \E l \in FeedbackLists(MaxFeedbacks) :
          ds = [NoDataset EXCEPT !.feedbacks = l]
    /\ ProcessIdle

NextDataset == CreateLabeledDataset

\* Answered queries of every author, with and without a log channel,
\* logged by stream_log and read back by the listener.
InitLog ==
    /\ is_ready = FALSE
    /\ channel = "none"
    /\ store = <<>>
    /\ handlers = EmptyBag
    /\ sent = 0
    /\ lastHandled = NoEvent
    /\ posted = {"m2", "m3"}
    /\ now = 0
    /\ loops = [l \in LoopIds |-> LoopOff]
    /\ call = NoCall
    /\ tr = TrainerIdle
    /\ job = NoJob
    /\ cmd = NoCmd
    /\ AnswerIdle
    /\ \E has_channel \in BOOLEAN, author \in Authors,
          q \in LoggedQueries, r \in LoggedResponses :
          logmsg = [NoLog EXCEPT !.pc = "answered",
                                 !.has_channel = has_channel,
                                 !.author = author, !.query = q,
                                 !.response = r]
    /\ openai_client = NoClient
    /\ boot = NoBoot

NextLog == StreamLog \/ ReadLogMessage

SpecLog == InitLog /\ [][NextLog]_vars

SpecDataset == InitDataset /\ [][NextDataset]_vars

-----------------------------------------------------------------------------
(* Properties *)

EntriesFor(s, m, u) == {i \in 1..Len(s) : MatchesPair(s[i], m, u)}

Thumbs == ThumbsUp \cup ThumbsDown

Polarity(e) == IF e \in ThumbsUp THEN "positive" ELSE "negative"

\* A reaction-add event as the feedback collector is meant to accept it.
Qualifying(m, u, e) ==
    /\ e \in Thumbs
    /\ IsAdmin(u) /\ ~IsBot(u)
    /\ HasTxt(m)
    /\ \A content \in Transcripts(m) : Markers \subseteq content

C2_LatestReactionStored ==
    (/\ lastHandled.kind = "add"
     /\ lastHandled.live
     /\ Qualifying(lastHandled.m, lastHandled.u, lastHandled.e))
    => LET E == EntriesFor(store, lastHandled.m, lastHandled.u) IN
       /\ Cardinality(E) = 1
       /\ \A i \in E : /\ store[i].ftype = Polarity(lastHandled.e)
                       /\ store[i].feedback_timestamp = lastHandled.at

\* C3: after a reviewer has removed their reaction from a message, the
\* store holds no document for that message and reviewer.
C3_RemovalDeletes ==
    lastHandled.kind = "remove"
    => EntriesFor(store, lastHandled.m, lastHandled.u) = {}

\* The event of a suspended handler is not a qualifying one.
NonQualifying(r) == ~Qualifying(r.m, r.u, r.e)

\* C4: a step of the handler of a non-qualifying reaction-add event leaves
\* the store unchanged and sends nothing to the channel.
C4_IgnoredLeavesStore ==
    [][\A r \in BagToSet(handlers) :
          (NonQualifying(r) /\ CopiesIn(r, handlers') < CopiesIn(r, handlers))
          => (store' = store /\ sent' = sent)]_vars

\* A handler of a reaction on a transcript without all markers has come as
\* far as the attachment read, while the store holds recorded feedback.
C4_Witness ==
    /\ \E r \in BagToSet(handlers) :
          NonQualifying(r) /\ r.pc = "read_attachment"
    /\ Len(store) > 0
    /\ sent > 0

\* C5: a call run_training_cycle(min_feedback_count=N) on a store with
\* fewer than N qualifying entries returns None and starts no trainer work.
C5_BelowThresholdReturnsNone ==
    (call.result # "none" /\ call.k < call.n)
    => (call.result = "None" /\ tr.pc = "idle" /\ ~job.exists)

\* C6: a call run_training_cycle(min_feedback_count=N) on a store with
\* exactly N qualifying entries goes on to train on at least N examples.
C6_AtThresholdTrains ==
    (call.result # "none" /\ call.n >= 1 /\ call.k = call.n)
    => (call.result = "train" /\ call.size >= call.n)

\* C7 as stated: the sleep after a failed cycle is the regular interval.
C7_NextCycleOnRegularSchedule ==
    \A l \in LoopIds :
       (loops[l].pc = "sleep" /\ loops[l].last = "error")
       => loops[l].delay = RegularInterval

\* C7 as amended: a failed cycle does not stop the loop; the loop sleeps
\* for the retry delay and then calls run_training_cycle again.
C7_RetryAfterFailedCycle ==
    \A l \in LoopIds :
       /\ []((loops[l].pc = "sleep" /\ loops[l].last = "error")
             => loops[l].delay = RetryDelay)
       /\ (loops[l].last = "error") ~> (loops[l].pc = "call")

\* A cycle has failed and the loop is about to call run_training_cycle.
C7_Witness ==
    \E l \in LoopIds : loops[l].last = "error" /\ loops[l].pc = "call"

C9_PollsUntilTerminal ==
    /\ (tr.model # "pending") <=> (tr.observed \in Terminal)
    /\ (tr.observed = "succeeded") => (tr.model = job.fine_tuned_model)
    /\ (tr.observed \in {"failed", "cancelled"}) => (tr.model = "None")
    /\ (tr.model = "None") => (tr.observed \in {"failed", "cancelled"})
    /\ (tr.pc \in {"poll_events", "poll_status", "poll_sleep"})
       => tr.sleeps = tr.polls
    /\ (tr.pc = "done") => (tr.sleeps <= tr.polls /\ tr.polls <= tr.sleeps + 1)
    /\ (tr.sleeps > 0) => (tr.delay = PollInterval)

\* The model was returned after a fetch that did not see a terminal status.
C9_Witness ==
    tr.model = "ft-model" /\ tr.polls >= 2

\* C10: when a handler that started an indicator task and saw the answer
\* generation end has finished, it has cancelled the task and awaited it.
C10_IndicatorCancelledAndAwaited ==
    (cmd.hpc \in {"done", "crashed"} /\ cmd.gen # "none")
    => (cmd.cancelled /\ cmd.awaited)

\* The ways the topics/tags extraction of an answer call can fail.
AnalysisFailures ==
    {"analysis_call", "analysis_empty", "analysis_json", "analysis_shape"}

\* C11: when the topics/tags extraction of a call fails (the second
\* completion raises, its content is empty once the fence is stripped, is
\* not valid JSON, or is JSON but not an object), the call returns the text
\* of the first completion.
C11_AnalysisFailureKeepsAnswer ==
    (ans.called /\ ans.failure \in AnalysisFailures)
    => (~ans.raised /\ ans.value = AnswerText(ans.q))

\* C12: a call that returned the text of the first completion has added
\* exactly one Interaction record, which holds the query and that text, and
\* holds empty topics and tags when the extraction was not valid JSON.
C12_OneInteractionPerAnswer ==
    (ans.called /\ ~ans.raised /\ ans.value = AnswerText(ans.q))
    => /\ Len(interactions) = ans.before + 1
       /\ interactions[Len(interactions)].query = ans.q
       /\ interactions[Len(interactions)].response = ans.value
       /\ ans.failure = "analysis_json"
             => /\ interactions[Len(interactions)].topics = <<>>
                /\ interactions[Len(interactions)].tags = <<>>

\* C13: a call whose first completion raises or times out returns the
\* error text of the generation and leaves the Interaction records as they
\* were.
C13_PrimaryFailureReturnsError ==
    [][(ans'.called /\ ans'.failure = "primary")
       => /\ ~ans'.raised
          /\ ans'.value = GenerationError
          /\ interactions' = interactions]_vars

\* A first completion has failed while the store held a record.
C13_Witness ==
    /\ ans.called /\ ans.failure = "primary"
    /\ ans.value = GenerationError
    /\ Len(interactions) > 0

\* C14: no call ends with an exception; a call whose query embedding
\* cannot be made returns an error text and adds no Interaction record.
C14_NeverRaises ==
    ans.called
    => /\ ~ans.raised
       /\ ans.failure = "embedding"
             => /\ ans.value \in {LoadFailure, GenerationError}
                /\ Len(interactions) = ans.before

\* C15: a call that finds the embeddings file unreadable or empty takes
\* the list of the collection; when that fails too it returns the load
\* failure text; and a call that returns the text of the first completion
\* has worked on a list with at least one entry.
C15_FallbackOnEmptyStore ==
    ans.called
    => /\ ans.file \in {"raises", "empty"} => ans.source \in {"mongo", "none"}
       /\ ans.source = "none" => (~ans.raised /\ ans.value = LoadFailure)
       /\ ans.value = AnswerText(ans.q) => ans.entries > 0

\* The entries of a list that have a similarity above the floor, and the
\* order the ranking gives them.
Cleared(l) == {i \in 1..Len(l) : l[i].ok /\ l[i].sim > RelevanceFloor}

RankedBefore(l, i, j) ==
    \/ l[i].sim > l[j].sim
    \/ l[i].sim = l[j].sim /\ i < j

\* C16: find_most_similar_documents returns min(top_n, number of cleared
\* entries) documents, and the n-th of them is the cleared entry that has
\* exactly n-1 cleared entries before it in the order "greater similarity
\* first, equal similarities in list order".
C16_TopKOfStableRanking ==
    rank.done
    => LET l == rank.embeddings_list IN
       /\ Len(rank.out) = Min(rank.top_n, Cardinality(Cleared(l)))
       /\ \A n \in 1..Len(rank.out) :
             /\ rank.out[n].pos \in Cleared(l)
             /\ rank.out[n].sim = l[rank.out[n].pos].sim
             /\ Cardinality({j \in Cleared(l) :
                               RankedBefore(l, j, rank.out[n].pos)}) = n - 1

\* More entries than top_n clear the floor, two of them with the same
\* similarity behind an entry of smaller similarity, and one entry does
\* not clear it.
C16_Witness ==
    /\ rank.done
    /\ LET l == rank.embeddings_list IN
       /\ Cardinality(Cleared(l)) > rank.top_n
       /\ Len(l) >= 3
       /\ l[1].ok /\ l[2].ok /\ l[3].ok
       /\ l[1].sim > RelevanceFloor /\ l[1].sim < l[2].sim
       /\ l[2].sim = l[3].sim
       /\ rank.top_n = 2
       /\ rank.out[1].pos = 2 /\ rank.out[2].pos = 3

\* C17: the context string is at most max_length characters long, and its
\* documents are a prefix of the ranked list.
C17_ContextWithinMaxLength ==
    ctx.done
    => /\ ctx.out.length <= ctx.max_length
       /\ Len(ctx.out.parts) <= Len(ctx.similar_docs)
       /\ ctx.out.parts = SubSeq(ctx.similar_docs, 1, Len(ctx.out.parts))

\* C18: the store gets a new document only in a step that handles a
\* qualifying reaction-add event, the document being the one of that
\* message and reviewer; a step that posts a message adds none.
C18_EntriesOnlyFromReactions ==
    [][/\ Len(store') > Len(store)
          => /\ lastHandled'.kind = "add"
             /\ Qualifying(lastHandled'.m, lastHandled'.u, lastHandled'.e)
             /\ MatchesPair(store'[Len(store')], lastHandled'.m,
                            lastHandled'.u)
       /\ posted' # posted => store' = store]_vars

C21_RejectedModelRaisesModelNotAvailable ==
    (tr.pc = "done" /\ tr.file = "local" /\ ~ModelAvailable(tr.model_name))
    => (~tr.uploaded /\ ~job.exists /\ tr.error = "ModelNotAvailableError")

\* C22: once create_training_job has ended after it had submitted the
\* job, the local training file is removed.
C22_FileRemovedAfterSubmission ==
    (job.exists /\ tr.pc \in {"poll_events", "poll_status", "poll_sleep",
                              "done"})
    => tr.file = "removed"

\* The entries of a list that carry a reply
WithReply(l) == {i \in 1..Len(l) : l[i].replies # <<>>}

\* C23: create_labeled_dataset returns a dataset with one example for each
\* entry and one more for each entry that carries a reply.
C23_DatasetSize ==
    ds.done
    => /\ ~ds.out.raised
       /\ ds.out.size = Len(ds.feedbacks)
                          + Cardinality(WithReply(ds.feedbacks))

\* C24: the error text that explain and ask send does not hold the
\* message of the exception.
C24_ErrorTextWithoutDetail ==
    (cmd.name \in {"explain", "ask"} /\ cmd.text # NoText)
    => cmd.text = ErrorText(cmd.name, "none")

\* C27: the indicator task of an explain or ask command, once created,
\* ends.
C27_IndicatorTerminates ==
    (cmd.name \in {"explain", "ask"} /\ cmd.lpc # "none")
    ~> LoaderEnded(cmd)

\* C28: in the explain command no step issues an edit of the placeholder
\* message once the handler has deleted it.
C28_NoEditAfterDelete ==
    [][(cmd.name = "explain" /\ cmd.thinking = "deleted"
        /\ cmd'.name = "explain")
       => ~(/\ cmd'.lpc \in {"editing", "final_edit"}
            /\ cmd'.lpc # cmd.lpc)]_vars

\* The answer generation of an explain command raised, the handler has
\* deleted the placeholder, and the indicator task, which had stages left
\* to show, has ended.
C28_Witness ==
    /\ cmd.name = "explain" /\ cmd.gen = "raised"
    /\ cmd.thinking = "deleted"
    /\ cmd.lpc = "done" /\ cmd.stage < LastStage

\* C25: every step of a training cycle (the fetch and the build of the
\* call, the write, the upload, the submission, the polls) leaves the
\* stored feedback documents as they were.
C25_CycleLeavesFeedbackUnchanged ==
    [][(tr' # tr \/ call' # call \/ job' # job) => store' = store]_vars

\* Feedback is stored, and the trainer part of a cycle has submitted its
\* job and polled it until get_fine_tuned_model returned.
C25_Witness ==
    /\ \E i \in 1..Len(store) : InCursor(store[i], now, LookbackDays)
    /\ tr.pc = "done" /\ tr.result # "raised"
    /\ job.exists /\ tr.polls > 0

\* C26: once every handler has finished, the feedback type stored for the
\* message and reviewer of the event delivered last is the polarity of
\* that event.
C26_LaterEventWins ==
    (InFlight = 0 /\ lastHandled.kind = "add")
    => /\ EntriesFor(store, lastHandled.m, lastHandled.u) # {}
       /\ \A i \in EntriesFor(store, lastHandled.m, lastHandled.u) :
             store[i].ftype = Polarity(lastHandled.e)

Polling == tr.pc \in {"poll_events", "poll_status", "poll_sleep"}

\* C30: get_fine_tuned_model has returned only when the job is in a
\* terminal status, however many polls it took, and once the job is in a
\* terminal status the polling call ends.
C30_TerminatesIffTerminal ==
    /\ []((tr.pc = "done" /\ tr.result # "raised")
          => job.status \in Terminal)
    /\ (Polling /\ job.status \in Terminal) ~> (tr.pc = "done")

\* get_fine_tuned_model has fetched the status as often as is counted and
\* sleeps once more, the job being in a non-terminal status.
C30_Witness ==
    /\ tr.pc = "poll_sleep"
    /\ tr.polls = MaxPolls /\ tr.sleeps = MaxPolls
    /\ job.exists /\ job.status \notin Terminal

\* C31: the log message of an answered query carries a transcript, and
\* reading it with the markers of the listener returns the user name, the
\* user id, the query and the response that were logged.
C31_TranscriptRoundTrip ==
    (logmsg.pc = "read" /\ logmsg.has_channel)
    => /\ logmsg.data.ok
       /\ logmsg.data.username = logmsg.author.name
       /\ logmsg.data.user_id = logmsg.author.id
       /\ logmsg.data.query = logmsg.query.text
       /\ logmsg.data.response = logmsg.response.text

\* C32: at most one run_periodic_training task is active, however often
\* the learn command was invoked.
C32_AtMostOneLoop ==
    Cardinality({l \in DOMAIN loops : loops[l].pc # "off"}) <= 1

\* C34: when create_training_job has raised, no fine-tuning job exists at
\* the provider.  (The local file is written and not removed exactly when
\* the exception left create_training_job.)
C34_RaiseMeansNoJob ==
    (tr.pc = "done" /\ tr.result = "raised" /\ tr.file = "local")
    => ~job.exists

\* C35: no document with a reviewer is stored for a message that the bot
\* did not author.
C35_OnlyBotMessagesGetFeedback ==
    \A i \in 1..Len(store) :
       "reviewer" \in store[i].keys => Author(store[i].message_id) = "bot"

\* C36: for a human administrator is_valid_reaction accepts exactly the
\* emojis of the positive and negative lists of process_reaction, and no
\* document written by log_feedback has a null feedback type.
C36_AcceptedEqualsListed ==
    /\ (lastHandled.kind = "add" /\ IsAdmin(lastHandled.u)
          /\ ~IsBot(lastHandled.u))
       => (is_valid_reaction(lastHandled.e, lastHandled.u)
              <=> lastHandled.e \in positive \cup negative)
    /\ \A i \in 1..Len(store) :
          "reviewer" \in store[i].keys => store[i].ftype # "null"

\* C37: for every number of days, get_recent_feedback returns one entry
\* for each stored document with a feedback type and a timestamp inside
\* the window, in the order of the collection, and no other.
C37_RecentFeedbackIsTheFilter ==
    \A days \in {0, TickDays, LookbackDays} :
       LET fb == get_recent_feedback(store, now, days)
           InC(d) == InCursor(d, now, days)
       IN  /\ ~fb.raised
           /\ fb.feedbacks = SelectSeq(store, InC)

\* C38: once on_ready has set is_ready, the channel of the listener is
\* the logging channel.
C38_ReadyMeansChannel ==
    is_ready => channel = "ross-bot-logs"

\* C39: OpenAI(...) is constructed at most once.
C39_ClientConstructedOnce ==
    openai_client.constructed <= 1

\* C40: with restarts of the process in between, the reaction handled
\* last with the channel found has left exactly one entry for its message
\* and reviewer, with the polarity of that reaction and its time as
\* feedback timestamp, and every entry ever announced in the channel is
\* still stored.
C40_RestartKeepsFeedback ==
    /\ (lastHandled.kind = "add" /\ lastHandled.live)
       => \E i \in 1..Len(store) :
             /\ EntriesFor(store, lastHandled.m, lastHandled.u) = {i}
             /\ store[i].ftype = Polarity(lastHandled.e)
             /\ store[i].feedback_timestamp = lastHandled.at
    /\ Cardinality({i \in 1..Len(store) : "reviewer" \in store[i].keys})
          = sent

\* After a restart and on_ready with the channel found, a reaction has
\* updated an entry that was created before the restart.
C40_Witness ==
    /\ boot.restarts > 0
    /\ is_ready /\ channel = "ross-bot-logs"
    /\ lastHandled.kind = "add" /\ lastHandled.live
    /\ lastHandled.at >= boot.at
    /\ \E i \in EntriesFor(store, lastHandled.m, lastHandled.u) :
          /\ store[i].timestamp < boot.at
          /\ store[i].feedback_timestamp >= boot.at

=============================================================================
